---- MODULE Spec2Model ----
(***************************************************************************)
(* RossROS (asyncio variant): buses, consumer-producer nodes, the gather   *)
(* scheduler, and the key/value Server / Client / NetBus layer.            *)
(*                                                                         *)
(* Python values are records [k, n, t]: k is the kind, n a number held in  *)
(* halves (Num(-1) is -0.5, Num(2) is 1) or a bool as 0/1, t the elements  *)
(* of a tuple or list.                                                     *)
(***************************************************************************)
EXTENDS Integers, Sequences, FiniteSets, TLC

\* ------------------------------------------------------------------ bounds
\* Cycles a node of the bench wiring may begin.
MaxCycles == 2
\* Client.set / Client.get calls made in a run of the Server.
MaxCalls == 2
\* The demo, in ticks of the clock: the last tick, the Timer's duration (10 s
\* in node2), and the delays of the producers (0.05 s), of the multiplier and
\* the Timer (0.01 s) and of the Printer (0.25 s).
MaxTime == 4
TimerDuration == 2
DelayProducer == 1
DelayFast == 1
DelayPrinter == 2
\* Frames a peer that speaks to the Server over a raw connection may send.
MaxFrames == 2

\* ------------------------------------------------------------ Python values
None == [k |-> "none", n |-> 0, t |-> <<>>]
Bool(b) == [k |-> "bool", n |-> IF b THEN 1 ELSE 0, t |-> <<>>]
Num(i) == [k |-> "num", n |-> i, t |-> <<>>]
Tup(s) == [k |-> "tuple", n |-> 0, t |-> s]
List(s) == [k |-> "list", n |-> 0, t |-> s]
\* An object that is neither a number, a string nor a container (node2 puts
\* its Client into the /combined_wave bus).
Obj == [k |-> "obj", n |-> 0, t |-> <<>>]
\* A raised exception, as the outcome of a call.
Raise == [k |-> "raise", n |-> 0, t |-> <<>>]
\* A field a request does not have.
Absent == [k |-> "absent", n |-> 0, t |-> <<>>]

\* bool(v)
Truthy(v) ==
  CASE v.k = "none" -> FALSE
    [] v.k = "bool" -> v.n = 1
    [] v.k = "num" -> v.n # 0
    [] v.k \in {"tuple", "list"} -> Len(v.t) > 0
    [] OTHER -> TRUE

\* v >= 0 is defined for numbers and bools; it raises TypeError otherwise.
Ordered(v) == v.k \in {"bool", "num"}

\* `tbv and tbv >= 0` for one termination-bus value: "yes", "no" or "raise".
TriggerNever(v) == "no"
TriggerOnFalse(v) ==
  IF v.k = "bool" /\ v.n = 0 THEN "yes"
  ELSE IF ~Truthy(v) THEN "no"
  ELSE IF ~Ordered(v) THEN "raise"
  ELSE IF v.n >= 0 THEN "yes" ELSE "no"
TriggerNonNegative(v) ==
  IF v.k = "none" THEN "no"
  ELSE IF ~Ordered(v) THEN "raise"
  ELSE IF v.n >= 0 /\ (v.k = "num" \/ v.n = 1) THEN "yes" ELSE "no"
Trigger(v) ==
  IF ~Truthy(v) THEN "no"
  ELSE IF ~Ordered(v) THEN "raise"
  ELSE IF v.n >= 0 THEN "yes" ELSE "no"

\* The loop of checkTerminationBuses over the collected values, from index i:
\* "True" at the first triggering value, "raise" if a comparison raises
\* before that, "None" when the loop falls through.
RECURSIVE TermLoop(_, _)
TermLoop(vals, i) ==
  IF i > Len(vals) THEN "None"
  ELSE LET r == Trigger(vals[i])
       IN IF r = "yes" THEN "True"
          ELSE IF r = "raise" THEN "raise"
          ELSE TermLoop(vals, i + 1)

checkTerminationBuses(vals) == TermLoop(vals, 1)

\* The tuple of values dealValuesToBuses walks over, for a transform result
\* `values` and nb output buses.
DealPlanSplitAlways(values, nb) ==
  IF values.k = "tuple" THEN values.t ELSE [i \in 1..nb |-> values]
DealPlanBroadcastAlways(values, nb) == [i \in 1..nb |-> values]
DealPlanFirstOnly(values, nb) ==
  IF nb = 1 THEN <<values>>
  ELSE IF values.k = "tuple" THEN values.t
  ELSE <<values>>
DealPlan(values, nb) ==
  IF nb = 1 THEN <<values>>
  ELSE IF values.k = "tuple" THEN values.t
  ELSE [i \in 1..nb |-> values]

\* ------------------------------------------------------------------- state
VARIABLES
  nodes,     \* node name -> its wiring: [proc, cls, fn, inB, outB, termB,
             \*              delay, dur]
  bus,       \* local Bus name -> Bus.message
  dht,       \* NetBus name -> value held by the store returned by start_node
  srvState,  \* Server.state: key -> value, for the keys present
  pc,        \* node -> "new", "ready", "term", "in", "out", "sleep", "done",
             \*         "failed", "cancelled"   (where its coroutine stands)
  idx,       \* node -> index of the bus its loop is at
  acc,       \* node -> values collected so far by collectBusesToValues
  pend,      \* node -> [vals, ret]: the values dealValuesToBuses is walking
             \*         over, and the transform's result they come from
  wake,      \* node -> ticks left of its asyncio.sleep
  now,       \* time.time(), in ticks
  gatherSt,  \* process -> "idle", "waiting", "done", "failed": where the
             \*            coroutine that awaits gather stands
  calls,     \* client call -> [op, key, value, pc, resp, result, seen, expect,
             \*                 fresh, acked]: one Client.set / Client.get
  conns,     \* connection -> [c2s, s2c, eof, h, log]: frames in flight each
             \*               way, whether the client closed, the handler's
             \*               state, and (history) the frames the handler read,
             \*               each with the response it wrote
  hist,      \* history: key -> [n, v] set requests handled, value of the last
  srvPrev,   \* history: Server.state before the handler's last pass
  lastSet,   \* history: local Bus name -> value of the last completed set_message
  setAt,     \* history: local Bus name -> time of the last set_message on it
             \*          (-1 before the first)
  cnt,       \* history: node -> [cyc, in, call, out] cycles begun, input
             \*          reads, transform calls, output writes
  first,     \* history: node -> what its sole termination bus held when its
             \*          loop started: "unk" before that, then "yes" or "no"
  after,     \* history: node -> cycles it completed while the bus "term"
             \*          held a triggering value (counted up to 2)
  ev         \* history: what the last step did: the node that ran, the
             \*          values and result of its termination check, what
             \*          its transform returned, whether dealValuesToBuses
             \*          returned, the output writes made, the time, the
             \*          arguments of the transform, and what the node's
             \*          first output bus last had written to it before

vars == <<nodes, bus, dht, srvState, pc, idx, acc, pend, wake, now, gatherSt,
          calls, conns, hist, srvPrev, lastSet, setAt, cnt, first, after, ev>>

nodeVars == <<nodes, bus, dht, pc, idx, acc, pend, wake, now, gatherSt,
              lastSet, setAt, cnt, first, after>>
netVars == <<calls, conns, hist, srvPrev>>

NodeIds == DOMAIN nodes
IsLocal(b) == b \in DOMAIN bus

\* Bus.get_message / Bus.set_message on the map of local buses.
BusGet(B, b) == B[b]
BusSetDropped(B, b, v) == B
BusSet(B, b, v) == [B EXCEPT ![b] = v]

NoEv == [node |-> "none", what |-> "none", tvals |-> <<>>, tres |-> "none",
         ret |-> None, dealt |-> FALSE, nb |-> 0, wrote |-> 0, at |-> 0,
         ins |-> <<>>, was |-> None]
\* A specification that keeps no history of the last step starts at EvOff.
EvOff == [NoEv EXCEPT !.what = "off"]
Record(e) == IF ev = EvOff THEN ev ELSE e

\* ------------------------------------------------------------- transforms
\* Values the bench producers and transforms may return.
TermVals == {None, Bool(FALSE), Bool(TRUE), Num(-1), Num(0), Num(2)}
FanOuts == {Num(6), Tup(<<Num(6), Num(8)>>), Tup(<<Num(8)>>),
            Tup(<<Num(6), Num(8), Num(6)>>), Raise}
SingleOuts == {Num(6), Tup(<<Num(6), Num(8)>>), None}

\* What the call of a transform may depend on besides its arguments.
Choices(fn) ==
  CASE fn = "anyterm" -> TermVals
    [] fn = "fan" -> FanOuts
    [] fn = "single" -> SingleOuts
    [] fn = "square" -> {Num(-2), Num(2)}
    [] fn = "sawtooth" -> {Num(1)}
    [] OTHER -> {None}

\* mult(a, b) of node2: None counts as 0.
Mult(a, b) ==
  LET x == IF a.k = "none" THEN Num(0) ELSE a
      y == IF b.k = "none" THEN Num(0) ELSE b
  IN IF x.k \in {"num", "bool"} /\ y.k \in {"num", "bool"}
     THEN Num((x.n * y.n) \div 2)
     ELSE Raise

\* Printer.print_bus: None is printed as "None", anything else is formatted
\* as a number ("{0:.4g}"), which raises for a value that is no number.
PrintBus(msgs) ==
  IF \A i \in 1..Len(msgs) : msgs[i].k \in {"none", "num", "bool"}
  THEN None ELSE Raise

\* Timer.timer at time t, for a Timer built at time 0.
TimerValueCountsDown(dur, t) == IF dur # 0 THEN Num(dur - (t - 0)) ELSE Bool(FALSE)
TimerValueIgnoresForever(dur, t) == Num(t - 0 - dur)
TimerValueNeverElapses(dur, t) == IF dur # 0 THEN Num(0 - dur) ELSE Bool(FALSE)
TimerValueOneEarly(dur, t) == IF dur # 0 THEN Num(t - 0 - dur + 1) ELSE Bool(FALSE)
TimerValue(dur, t) == IF dur # 0 THEN Num(t - 0 - dur) ELSE Bool(FALSE)

\* A producer function that returns its k-th sample as the pair (k, -k).
Stamp(k) == Tup(<<Num(k), Num(-k)>>)

\* consumer_producer_function(*input_values) of node n, o the outcome chosen
\* for a transform that does not only depend on its arguments.
Transform(n, inputs, o) ==
  LET fn == nodes[n].fn
  IN CASE fn \in {"anyterm", "fan", "single", "square", "sawtooth"} -> o
       [] fn = "mult" -> Mult(inputs[1], inputs[2])
       [] fn = "print_bus" -> PrintBus(inputs)
       [] fn = "timer" -> TimerValue(nodes[n].dur, now)
       [] fn = "stamp" -> Stamp(cnt[n].call + 1)
       [] OTHER -> None

\* ------------------------------------------------------ key/value Server
\* Server.get: self.state.get(key, None)
ServerGet(state, key) == IF key \in DOMAIN state THEN state[key] ELSE None

\* Server.set, when its coroutine is run: self.state[key] = value
ServerSet(state, key, value) ==
  [x \in DOMAIN state \cup {key} |-> IF x = key THEN value ELSE state[x]]

\* json.loads(json.dumps(v)): a tuple comes back as a list.
JsonRoundTrip(v) == IF v.k = "tuple" THEN List(v.t) ELSE v

\* A request frame as handle_client sees it after json.loads: json says
\* whether the frame decodes to an object; a field that is missing is "absent".
Req(action, key, value) ==
  [json |-> TRUE, action |-> action, key |-> key, value |-> value]
Resp(status, hasValue, value, message) ==
  [status |-> status, hasValue |-> hasValue, value |-> value,
   message |-> message]

\* The effect of `self.set(key, value)` as handle_client calls it: the call
\* is not awaited, so the coroutine object is dropped and its body never runs.
CalledSet(state, key, value) == state

\* One pass of the body of the loop of handle_client on a non-empty frame:
\* the new Server.state, and the response written, or crash when the body
\* raises (the handler task ends there, before any write).
HandleGetStores(state, cmd) ==
  [state |-> ServerSet(state, cmd.key, None), crash |-> FALSE,
   resp |-> Resp("OK", TRUE, ServerGet(state, cmd.key), "")]
HandleGet(state, cmd) ==
  [state |-> state, crash |-> FALSE,
   resp |-> Resp("OK", TRUE, ServerGet(state, cmd.key), "")]

\* handle_client: the else branch, for an action that is neither set nor get.
HandleUnknownAnswersOK(state, cmd) ==
  [state |-> state, crash |-> FALSE, resp |-> Resp("OK", FALSE, None, "")]
HandleUnknown(state, cmd) ==
  [state |-> state, crash |-> FALSE,
   resp |-> Resp("ERROR", FALSE, None, "Unknown command")]

Handle(state, cmd) ==
  LET crashed == [state |-> state, crash |-> TRUE, resp |-> Resp("", FALSE, None, "")]
  IN IF ~cmd.json \/ cmd.action = "absent" THEN crashed
     ELSE IF cmd.action = "set"
       THEN IF cmd.key = "absent" \/ cmd.value = Absent THEN crashed
            ELSE [state |-> CalledSet(state, cmd.key, cmd.value),
                  crash |-> FALSE, resp |-> Resp("OK", FALSE, None, "")]
     ELSE IF cmd.action = "get"
       THEN IF cmd.key = "absent" THEN crashed ELSE HandleGet(state, cmd)
     ELSE HandleUnknown(state, cmd)

\* Client.get: response.get('value') of the decoded response.
ClientGetResult(resp) == IF resp.hasValue THEN JsonRoundTrip(resp.value) ELSE None

\* --------------------------------------------------------------- NetBus
\* The store behind a NetBus: node1 builds its NetBuses over the store that
\* start_node returns, node2 over a Client of the Server.
NetBackend(b) == IF b \in {"sq1", "saw1"} THEN "dht" ELSE "client"
NetKey(b) == IF b \in {"sq1", "sq2"} THEN "/square_wave" ELSE "/sawtooth_wave"

\* NetBus.get_message: await self.server.get(self.name)
NetGet(b) ==
  IF NetBackend(b) = "dht" THEN dht[b]
  ELSE ClientGetResult(Handle(srvState, Req("get", NetKey(b), None)).resp)

\* ----------------------------------------------------- the loop of a node
\* The part of a node's coroutine that runs between two suspension points,
\* as a record m: ph the place in the loop body ("term", "in", "out", then
\* "sleep", "done" or "failed"), i the index of the next bus, acc the values
\* collected, vals the values being dealt, bus the local buses, and history
\* (among it ins, the arguments of the transform, and wr, the local buses
\* written).
LoopStart(n) ==
  [ph |-> "term", i |-> 1, acc |-> <<>>, vals |-> <<>>, bus |-> bus,
   last |-> lastSet, c |-> cnt[n], tv |-> <<>>, tr |-> "none", ret |-> None,
   dealt |-> FALSE, ins |-> <<>>, wr |-> {}]

Resumed(n) ==
  [ph |-> pc[n], i |-> idx[n], acc |-> acc[n], vals |-> pend[n].vals,
   bus |-> bus, last |-> lastSet, c |-> cnt[n], tv |-> <<>>, tr |-> "none",
   ret |-> pend[n].ret, dealt |-> FALSE, ins |-> <<>>, wr |-> {}]

\* The bus the loop is about to access, when there is one.
AtBus(n, m) ==
  LET w == nodes[n]
  IN CASE m.ph = "term" /\ m.i <= Len(w.termB) -> w.termB[m.i]
       [] m.ph = "in" /\ m.i <= Len(w.inB) -> w.inB[m.i]
       [] m.ph = "out" /\ m.i <= Len(m.vals) /\ m.i <= Len(w.outB) -> w.outB[m.i]
       [] OTHER -> "nobus"

\* What the loop does when checkTerminationBuses returned r.
AfterCheckIgnored(r) == IF r = "raise" THEN "failed" ELSE "in"
AfterCheck(r) ==
  IF r = "True" THEN "done" ELSE IF r = "raise" THEN "failed" ELSE "in"

\* One statement of __call__ (and of the helpers it awaits) on local buses.
Step(n, m, o) ==
  LET w == nodes[n]
  IN CASE m.ph = "term" ->
            IF m.i <= Len(w.termB)
            THEN [m EXCEPT !.acc = Append(@, BusGet(m.bus, w.termB[m.i])),
                           !.i = @ + 1]
            ELSE LET r == checkTerminationBuses(m.acc)
                 IN [m EXCEPT !.tv = m.acc, !.tr = r, !.acc = <<>>, !.i = 1,
                              !.ph = AfterCheck(r),
                              !.c.cyc = IF AfterCheck(r) = "in" THEN @ + 1 ELSE @]
       [] m.ph = "in" ->
            IF m.i <= Len(w.inB)
            THEN [m EXCEPT !.acc = Append(@, BusGet(m.bus, w.inB[m.i])),
                           !.i = @ + 1, !.c.in = @ + 1]
            ELSE LET r == Transform(n, m.acc, o)
                 IN IF r = Raise
                    THEN [m EXCEPT !.ph = "failed", !.ret = r, !.c.call = @ + 1,
                                   !.ins = m.acc]
                    ELSE [m EXCEPT !.ph = "out", !.i = 1, !.ret = r,
                                   !.ins = m.acc,
                                   !.vals = DealPlan(r, Len(w.outB)),
                                   !.c.call = @ + 1]
       [] m.ph = "out" ->
            IF m.i <= Len(m.vals)
            THEN IF m.i > Len(w.outB)
                 THEN [m EXCEPT !.ph = "failed"]   \* buses[idx]: IndexError
                 ELSE [m EXCEPT !.bus = BusSet(@, w.outB[m.i], m.vals[m.i]),
                                !.last = [@ EXCEPT ![w.outB[m.i]] = m.vals[m.i]],
                                !.i = @ + 1, !.c.out = @ + 1,
                                !.wr = @ \cup {w.outB[m.i]}]
            ELSE [m EXCEPT !.ph = "sleep", !.dealt = TRUE]
       [] OTHER -> m

\* The coroutine yields to the event loop at asyncio.sleep and at the round
\* trip of a NetBus; it ends when the loop breaks or an exception escapes.
\* (StoppedBetweenWrites: as if set_message on a local Bus yielded too.)
StoppedBetweenWrites(n, m) ==
  \/ m.ph \in {"sleep", "done", "failed"}
  \/ AtBus(n, m) # "nobus" /\ ~IsLocal(AtBus(n, m))
  \/ m.ph = "out" /\ m.i > 1 /\ AtBus(n, m) # "nobus"
Stopped(n, m) ==
  \/ m.ph \in {"sleep", "done", "failed"}
  \/ AtBus(n, m) # "nobus" /\ ~IsLocal(AtBus(n, m))

RECURSIVE Run(_, _, _)
Run(n, m, o) ==
  IF Stopped(n, m) THEN m
  ELSE CHOOSE r \in {Run(n, x, o) : x \in {Step(n, m, o)}} : TRUE

\* A value the termination predicate counts as triggering, in the words of
\* the termination convention: truthy and numerically >= 0.
IsTriggering(v) == Truthy(v) /\ Ordered(v) /\ v.n >= 0

NoPend == [vals |-> <<>>, ret |-> None]

Min(a, b) == IF a < b THEN a ELSE b

\* How a specification bounds a run and its history: cap, the cycles a node
\* may begin (-1: no bound); hist, whether cnt and first are kept.
BenchOpt == [cap |-> MaxCycles, hist |-> TRUE]
DemoOpt == [cap |-> -1, hist |-> FALSE]
LocalOpt == [cap |-> -1, hist |-> TRUE]
LiveOpt == [cap |-> -1, hist |-> FALSE]

\* The termination bus of node2 holds a triggering value.
TermTriggered == "term" \in DOMAIN bus /\ IsTriggering(bus["term"])

\* The coroutine of n has run up to m: store where it stands.
Apply(n, m, what, opt) ==
  LET held == m.ph \in {"term", "in", "out"}
  IN /\ bus' = m.bus
     /\ lastSet' = m.last
     /\ setAt' = IF opt.hist
                 THEN [b \in DOMAIN setAt |-> IF b \in m.wr THEN now ELSE setAt[b]]
                 ELSE setAt
     /\ cnt' = IF opt.hist THEN [cnt EXCEPT ![n] = m.c] ELSE cnt
     /\ after' = [after EXCEPT ![n] =
                    IF m.ph = "sleep" /\ TermTriggered THEN Min(@ + 1, 2) ELSE @]
     /\ pc' = [pc EXCEPT ![n] = m.ph]
     /\ idx' = [idx EXCEPT ![n] = IF held THEN m.i ELSE 0]
     /\ acc' = [acc EXCEPT ![n] = IF held THEN m.acc ELSE <<>>]
     /\ pend' = [pend EXCEPT ![n] = IF m.ph = "out"
                                    THEN [vals |-> m.vals, ret |-> m.ret]
                                    ELSE NoPend]
     /\ wake' = [wake EXCEPT ![n] = IF m.ph = "sleep"
                                    THEN nodes[n].delay ELSE 0]
     /\ ev' = Record([node |-> n, what |-> what, tvals |-> m.tv,
                       tres |-> m.tr, ret |-> m.ret, dealt |-> m.dealt,
                       nb |-> Len(nodes[n].outB),
                       wrote |-> m.c.out - cnt[n].out, at |-> now,
                       ins |-> m.ins,
                       was |-> IF Len(nodes[n].outB) > 0 /\ IsLocal(nodes[n].outB[1])
                               THEN lastSet[nodes[n].outB[1]] ELSE None])

\* The event loop runs n from the top of its loop (first start, or the end
\* of asyncio.sleep) to its next suspension point. cap bounds the cycles.
NodeCycle(n, opt) ==
  /\ pc[n] = "ready" \/ (pc[n] = "sleep" /\ wake[n] = 0)
  /\ \E o \in Choices(nodes[n].fn) :
       \E m \in {Run(n, LoopStart(n), o)} :
         /\ opt.cap < 0 \/ m.c.cyc <= opt.cap
         /\ Apply(n, m, "cycle", opt)
  /\ first' = [first EXCEPT ![n] =
       IF @ # "unk" \/ ~opt.hist THEN @
       ELSE IF Len(nodes[n].termB) = 1 /\ IsLocal(nodes[n].termB[1])
               /\ IsTriggering(bus[nodes[n].termB[1]])
            THEN "yes" ELSE "no"]
  /\ UNCHANGED <<nodes, dht, srvState, now, gatherSt, netVars>>

\* The round trip of the NetBus n waits on completes, and n runs on.
NetDone(n, opt) ==
  /\ pc[n] \in {"term", "in", "out"}
  /\ LET m0 == Resumed(n)
         b == AtBus(n, m0)
     IN IF m0.ph = "out"
        THEN /\ IF NetBackend(b) = "dht"
                THEN dht' = [dht EXCEPT ![b] = m0.vals[m0.i]] /\ UNCHANGED srvState
                ELSE /\ srvState' = Handle(srvState, Req("set", NetKey(b),
                                           JsonRoundTrip(m0.vals[m0.i]))).state
                     /\ UNCHANGED dht
             /\ \E o \in Choices(nodes[n].fn) :
                  \E m \in {Run(n, [m0 EXCEPT !.i = @ + 1, !.c.out = @ + 1], o)} :
                    Apply(n, m, "net", opt)
        ELSE /\ UNCHANGED <<dht, srvState>>
             /\ \E o \in Choices(nodes[n].fn) :
                  \E m \in {Run(n, [m0 EXCEPT !.acc = Append(@, NetGet(b)),
                                                !.i = @ + 1,
                                                !.c.in = IF m0.ph = "in" THEN @ + 1 ELSE @],
                                  o)} :
                    Apply(n, m, "net", opt)
  /\ UNCHANGED <<nodes, now, gatherSt, first, netVars>>

\* gather: pc() for every node of the list, then asyncio.gather schedules
\* them all.
Procs == DOMAIN gatherSt
NodesOf(p) == {n \in NodeIds : nodes[n].proc = p}

Gather(p) ==
  /\ gatherSt[p] = "idle"
  /\ gatherSt' = [gatherSt EXCEPT ![p] = "waiting"]
  /\ pc' = [n \in NodeIds |-> IF nodes[n].proc = p THEN "ready" ELSE pc[n]]
  /\ ev' = Record([NoEv EXCEPT !.what = "gather"])
  /\ UNCHANGED <<nodes, bus, dht, srvState, idx, acc, pend, wake, now,
                 lastSet, setAt, cnt, first, after, netVars>>

\* `await asyncio.gather(...)` returns once every awaitable has returned.
\* (With return_exceptions=True it would wait for those that raised too.)
GatherMayReturnDespiteFailure(p) ==
  \A n \in NodesOf(p) : pc[n] \in {"done", "failed"}
GatherMayReturnAny(p) == \E n \in NodesOf(p) : pc[n] = "done"
GatherMayReturn(p) == \A n \in NodesOf(p) : pc[n] = "done"

GatherReturn(p) ==
  /\ gatherSt[p] = "waiting"
  /\ GatherMayReturn(p)
  /\ gatherSt' = [gatherSt EXCEPT ![p] = "done"]
  /\ ev' = Record([NoEv EXCEPT !.what = "return"])
  /\ UNCHANGED <<nodes, bus, dht, srvState, pc, idx, acc, pend, wake, now,
                 lastSet, setAt, cnt, first, after, netVars>>

\* ... and raises the first exception one of them raised.
GatherRaise(p) ==
  /\ gatherSt[p] = "waiting"
  /\ \E n \in NodesOf(p) : pc[n] = "failed"
  /\ gatherSt' = [gatherSt EXCEPT ![p] = "failed"]
  /\ ev' = Record([NoEv EXCEPT !.what = "raise"])
  /\ UNCHANGED <<nodes, bus, dht, srvState, pc, idx, acc, pend, wake, now,
                 lastSet, setAt, cnt, first, after, netVars>>

\* asyncio.run (runConcurrently, and the demos) cancels the tasks still
\* pending when the coroutine it runs has raised.
Live(n) == pc[n] \in {"ready", "term", "in", "out", "sleep"}

CancelRest(p) ==
  /\ gatherSt[p] = "failed"
  /\ \E n \in NodesOf(p) : Live(n)
  /\ LET hit(n) == nodes[n].proc = p /\ Live(n)
     IN /\ pc' = [n \in NodeIds |-> IF hit(n) THEN "cancelled" ELSE pc[n]]
        /\ idx' = [n \in NodeIds |-> IF hit(n) THEN 0 ELSE idx[n]]
        /\ acc' = [n \in NodeIds |-> IF hit(n) THEN <<>> ELSE acc[n]]
        /\ pend' = [n \in NodeIds |-> IF hit(n) THEN NoPend ELSE pend[n]]
        /\ wake' = [n \in NodeIds |-> IF hit(n) THEN 0 ELSE wake[n]]
  /\ ev' = Record([NoEv EXCEPT !.what = "cancel"])
  /\ UNCHANGED <<nodes, bus, dht, srvState, now, gatherSt, lastSet, setAt, cnt,
                 first, after, netVars>>

\* ------------------------------------------------------- the bench wiring
\* Three nodes over local buses: K, a Producer that writes the termination
\* bus t1 it also watches; F, a ConsumerProducer with two output buses and
\* two termination buses; S, a ConsumerProducer with one output bus.
Wire(proc, cls, fn, inB, outB, termB, delay, dur) ==
  [proc |-> proc, cls |-> cls, fn |-> fn, inB |-> inB, outB |-> outB,
   termB |-> termB, delay |-> delay, dur |-> dur]

BenchNodes ==
  [n \in {"K", "F", "S"} |->
     CASE n = "K" -> Wire("main", "Producer", "anyterm", <<"kin">>, <<"t1">>, <<"t1">>, 0, 0)
       [] n = "F" -> Wire("main", "ConsumerProducer", "fan", <<"a">>, <<"b", "c">>,
                          <<"t1", "t2">>, 0, 0)
       [] n = "S" -> Wire("main", "ConsumerProducer", "single", <<"b", "c">>, <<"a">>,
                          <<"t1">>, 0, 0)]

BenchBuses(t1, t2) ==
  [b \in {"kin", "a", "b", "c", "t1", "t2"} |->
     CASE b = "t1" -> t1 [] b = "t2" -> t2 [] OTHER -> Num(0)]

ZeroCnt == [cyc |-> 0, in |-> 0, call |-> 0, out |-> 0]

InitNodes(w, B, procs, e) ==
  /\ nodes = w
  /\ bus = B
  /\ lastSet = B
  /\ setAt = [b \in DOMAIN B |-> -1]
  /\ pc = [n \in DOMAIN w |-> "new"]
  /\ idx = [n \in DOMAIN w |-> 0]
  /\ acc = [n \in DOMAIN w |-> <<>>]
  /\ pend = [n \in DOMAIN w |-> NoPend]
  /\ wake = [n \in DOMAIN w |-> 0]
  /\ cnt = [n \in DOMAIN w |-> ZeroCnt]
  /\ first = [n \in DOMAIN w |-> "unk"]
  /\ after = [n \in DOMAIN w |-> 0]
  /\ now = 0
  /\ gatherSt = [p \in procs |-> "idle"]
  /\ ev = e

\* No client call, no connection.
InitNoNet ==
  /\ calls = <<>>
  /\ conns = <<>>
  /\ hist = <<>>
  /\ srvPrev = <<>>

Init ==
  /\ InitNoNet
  /\ \E t1 \in {Bool(FALSE), Num(0), Num(2)}, t2 \in {Bool(FALSE), Num(-1), Bool(TRUE)} :
       InitNodes(BenchNodes, BenchBuses(t1, t2), {"main"}, NoEv)
  /\ dht = <<>>
  /\ srvState = <<>>

Next ==
  \/ Gather("main")
  \/ \E n \in NodeIds : NodeCycle(n, BenchOpt)
  \/ GatherReturn("main")
  \/ GatherRaise("main")
  \/ CancelRest("main")

Spec == Init /\ [][Next]_vars

\* ------------------------------------------- Server and Client over TCP
Keys == {"k", "j"}
SetValues == {Num(84), Num(0)}
CallIds == 1..MaxCalls

NoResp == Resp("", FALSE, None, "")
NoCall == [op |-> "none", key |-> "", value |-> None, pc |-> "idle",
           resp |-> NoResp, result |-> None, seen |-> 0, expect |-> Absent,
           fresh |-> FALSE, acked |-> FALSE]
NoConn == [c2s |-> <<>>, s2c |-> <<>>, eof |-> FALSE, h |-> "none",
           log |-> <<>>]

\* The command Client.set / Client.get builds, as the Server decodes it.
Command(op, key, value) ==
  IF op = "set" THEN Req("set", key, JsonRoundTrip(value))
  ELSE Req("get", key, Absent)

\* send_command: asyncio.open_connection; start_server starts handle_client
\* for the accepted connection.
ClientOpen(i, op, key, value) ==
  /\ calls[i].pc = "idle"
  /\ calls' = [calls EXCEPT ![i] =
                 [NoCall EXCEPT !.op = op, !.key = key, !.value = value,
                                !.pc = "open", !.seen = hist[key].n,
                                !.acked = \E j \in DOMAIN calls :
                                            /\ calls[j].op = "set"
                                            /\ calls[j].key = key
                                            /\ calls[j].pc = "done"]]
  /\ conns' = [conns EXCEPT ![i] = [NoConn EXCEPT !.h = "run"]]
  /\ ev' = Record([NoEv EXCEPT !.what = "open", !.nb = i])
  /\ UNCHANGED <<nodeVars, srvState, hist, srvPrev>>

\* send_command: writer.write(json.dumps(command)); await writer.drain()
ClientSend(i) ==
  /\ calls[i].pc = "open"
  /\ calls' = [calls EXCEPT ![i].pc = "sent"]
  /\ conns' = [conns EXCEPT ![i].c2s =
                 Append(@, Command(calls[i].op, calls[i].key, calls[i].value))]
  /\ ev' = Record([NoEv EXCEPT !.what = "send", !.nb = i])
  /\ UNCHANGED <<nodeVars, srvState, hist, srvPrev>>

\* send_command: response = await reader.read(1024)
ClientRecv(i) ==
  /\ calls[i].pc = "sent"
  /\ Len(conns[i].s2c) > 0
  /\ calls' = [calls EXCEPT ![i].pc = "read", ![i].resp = Head(conns[i].s2c)]
  /\ conns' = [conns EXCEPT ![i].s2c = Tail(@)]
  /\ ev' = Record([NoEv EXCEPT !.what = "recv", !.nb = i])
  /\ UNCHANGED <<nodeVars, srvState, hist, srvPrev>>

\* (A close that would leave the connection half open.)
ClientCloseWithoutFin(i) ==
  /\ calls[i].pc = "read"
  /\ calls' = [calls EXCEPT ![i].pc = "done",
                            ![i].result = IF calls[i].op = "get"
                                          THEN ClientGetResult(calls[i].resp)
                                          ELSE None]
  /\ ev' = Record([NoEv EXCEPT !.what = "close", !.nb = i])
  /\ UNCHANGED <<nodeVars, srvState, conns, hist, srvPrev>>

\* send_command: writer.close(); await writer.wait_closed(); return
\* json.loads(response). Client.get returns response.get('value'),
\* Client.set returns nothing.
ClientClose(i) ==
  /\ calls[i].pc = "read"
  /\ calls' = [calls EXCEPT ![i].pc = "done",
                            ![i].result = IF calls[i].op = "get"
                                          THEN ClientGetResult(calls[i].resp)
                                          ELSE None]
  /\ conns' = [conns EXCEPT ![i].eof = TRUE]
  /\ ev' = Record([NoEv EXCEPT !.what = "close", !.nb = i])
  /\ UNCHANGED <<nodeVars, srvState, hist, srvPrev>>

\* handle_client: one pass of the loop on a frame that was read.
Serve(i) ==
  /\ conns[i].h = "run"
  /\ Len(conns[i].c2s) > 0
  /\ \E r \in {Handle(srvState, Head(conns[i].c2s))} :
       LET cmd == Head(conns[i].c2s)
           k == cmd.key
       IN /\ srvState' = r.state
          /\ srvPrev' = srvState
          /\ conns' = [conns EXCEPT
                         ![i].c2s = Tail(@),
                         ![i].s2c = IF r.crash THEN @ ELSE Append(@, r.resp),
                         ![i].h = IF r.crash THEN "crashed" ELSE @,
                         ![i].log = Append(@, [req |-> cmd,
                                               resp |-> IF r.crash THEN NoResp
                                                        ELSE r.resp])]
          /\ hist' = IF ~r.crash /\ cmd.action = "set"
                     THEN [hist EXCEPT ![k] = [n |-> @.n + 1, v |-> calls[i].value]]
                     ELSE hist
          /\ calls' = IF ~r.crash /\ cmd.action = "get"
                      THEN [calls EXCEPT
                              ![i].fresh = (hist[k].n = 0),
                              ![i].expect = IF hist[k].n > 0 /\ hist[k].n = calls[i].seen
                                            THEN hist[k].v ELSE Absent]
                      ELSE calls
          /\ ev' = Record([NoEv EXCEPT
                             !.what = IF r.crash THEN "crash" ELSE cmd.action,
                             !.nb = i])
  /\ UNCHANGED nodeVars

\* handle_client: read returns b'' at the client's close; break; writer.close()
ServeEOF(i) ==
  /\ conns[i].h = "run"
  /\ Len(conns[i].c2s) = 0
  /\ conns[i].eof
  /\ conns' = [conns EXCEPT ![i].h = "closed"]
  /\ ev' = Record([NoEv EXCEPT !.what = "eof", !.nb = i])
  /\ UNCHANGED <<nodeVars, srvState, calls, hist, srvPrev>>

InitNet ==
  /\ InitNodes(<<>>, <<>>, {}, NoEv)
  /\ dht = <<>>
  /\ srvState = <<>>
  /\ srvPrev = <<>>
  /\ calls = [i \in CallIds |-> NoCall]
  /\ conns = [i \in CallIds |-> NoConn]
  /\ hist = [k \in Keys |-> [n |-> 0, v |-> None]]

NextNet ==
  \/ \E i \in CallIds, k \in Keys : \E v \in SetValues : ClientOpen(i, "set", k, v)
  \/ \E i \in CallIds, k \in Keys : ClientOpen(i, "get", k, None)
  \/ \E i \in CallIds : ClientSend(i)
  \/ \E i \in CallIds : ClientRecv(i)
  \/ \E i \in CallIds : ClientClose(i)
  \/ \E i \in CallIds : Serve(i)
  \/ \E i \in CallIds : ServeEOF(i)

SpecNet == InitNet /\ [][NextNet]_vars

\* Two client calls, whose connections overlap or follow each other. The
\* event loop of the Server runs a handler whose read can return: a frame
\* or the end of the stream does not wait for ever.
LifeIds == {1, 2}

NextLife ==
  \/ \E i \in LifeIds, k \in Keys : \E v \in SetValues : ClientOpen(i, "set", k, v)
  \/ \E i \in LifeIds, k \in Keys : ClientOpen(i, "get", k, None)
  \/ \E i \in LifeIds : ClientSend(i)
  \/ \E i \in LifeIds : ClientRecv(i)
  \/ \E i \in LifeIds : ClientClose(i)
  \/ \E i \in LifeIds : Serve(i)
  \/ \E i \in LifeIds : ServeEOF(i)

SpecLife ==
  /\ InitNet /\ [][NextLife]_vars
  /\ \A i \in LifeIds : WF_vars(Serve(i)) /\ WF_vars(ServeEOF(i))

\* ------------------------------------------- a NetBus over a Client
\* NetBus(client, name, initial_message): the constructor only schedules
\* set_message(initial_message), which is Client.set(name, initial_message);
\* call 1 is that task. get_message is Client.get(name), the other calls.
BusName == "k"
InitialMessages == SetValues

NetBusInitialWrite(v) == ClientOpen(1, "set", BusName, v)
NetBusGetMessage(i) == i # 1 /\ ClientOpen(i, "get", BusName, None)

NextNetBus ==
  \/ \E v \in InitialMessages : NetBusInitialWrite(v)
  \/ \E i \in CallIds : NetBusGetMessage(i)
  \/ \E i \in CallIds : ClientSend(i)
  \/ \E i \in CallIds : ClientRecv(i)
  \/ \E i \in CallIds : ClientClose(i)
  \/ \E i \in CallIds : Serve(i)
  \/ \E i \in CallIds : ServeEOF(i)

SpecNetBus == InitNet /\ [][NextNetBus]_vars

\* ------------------------------------- a peer over a raw TCP connection
\* Frames a peer may write: requests with an action the Server does not
\* know (with and without a key), well-formed get and set requests, bytes
\* that are no JSON, and objects that lack action, key or value.
NotJson == [json |-> FALSE, action |-> "absent", key |-> "absent", value |-> Absent]
UnknownFrames == {Req("bogus", "k", Absent), Req("bogus", "absent", Absent)}
ValidFrames == {Req("get", "k", Absent), Req("set", "k", Num(84))}
MalformedFrames == {NotJson, Req("absent", "k", Absent), Req("get", "absent", Absent),
                    Req("set", "absent", Num(84))}
RawFrames == UnknownFrames \cup ValidFrames \cup MalformedFrames

\* The peer connects (start_server starts handle_client), writes a frame
\* once the handler has read the one before, reads a response, closes.
RawOpen(i) ==
  /\ calls[i].pc = "idle"
  /\ calls' = [calls EXCEPT ![i] = [NoCall EXCEPT !.op = "raw", !.pc = "open"]]
  /\ conns' = [conns EXCEPT ![i] = [NoConn EXCEPT !.h = "run"]]
  /\ ev' = Record([NoEv EXCEPT !.what = "open", !.nb = i])
  /\ UNCHANGED <<nodeVars, srvState, hist, srvPrev>>

RawSend(i, f) ==
  /\ calls[i].op = "raw" /\ calls[i].pc = "open"
  /\ Len(conns[i].c2s) = 0
  /\ Len(conns[i].log) < MaxFrames
  /\ conns' = [conns EXCEPT ![i].c2s = Append(@, f)]
  /\ ev' = Record([NoEv EXCEPT !.what = "send", !.nb = i])
  /\ UNCHANGED <<nodeVars, srvState, calls, hist, srvPrev>>

RawRecv(i) ==
  /\ calls[i].op = "raw" /\ calls[i].pc = "open"
  /\ Len(conns[i].s2c) > 0
  /\ calls' = [calls EXCEPT ![i].resp = Head(conns[i].s2c)]
  /\ conns' = [conns EXCEPT ![i].s2c = Tail(@)]
  /\ ev' = Record([NoEv EXCEPT !.what = "recv", !.nb = i])
  /\ UNCHANGED <<nodeVars, srvState, hist, srvPrev>>

RawClose(i) ==
  /\ calls[i].op = "raw" /\ calls[i].pc = "open"
  /\ calls' = [calls EXCEPT ![i].pc = "done"]
  /\ conns' = [conns EXCEPT ![i].eof = TRUE]
  /\ ev' = Record([NoEv EXCEPT !.what = "close", !.nb = i])
  /\ UNCHANGED <<nodeVars, srvState, hist, srvPrev>>

\* The connection the peer uses.
RawIds == {1}

NextRaw ==
  \/ \E i \in RawIds : RawOpen(i)
  \/ \E i \in RawIds : \E f \in RawFrames : RawSend(i, f)
  \/ \E i \in RawIds : RawRecv(i)
  \/ \E i \in RawIds : RawClose(i)
  \/ \E i \in RawIds : Serve(i)
  \/ \E i \in RawIds : ServeEOF(i)

SpecRaw == InitNet /\ [][NextRaw]_vars

\* ------------------------------------------------------ the two demos
\* rr_networking_node1.py: two Producers over NetBuses, built without
\* termination buses, so both watch the default producer termination bus.
\* rr_networking_node2.py: the multiplier, the Printer and a Timer over the
\* local termination bus "term"; /combined_wave starts as the Client object.
DemoNodes ==
  [n \in {"A", "A2", "B", "Pr", "T"} |->
     CASE n = "A" -> Wire("node1", "Producer", "square", <<"ain">>, <<"sq1">>,
                          <<"pterm">>, DelayProducer, 0)
       [] n = "A2" -> Wire("node1", "Producer", "sawtooth", <<"a2in">>, <<"saw1">>,
                           <<"pterm">>, DelayProducer, 0)
       [] n = "B" -> Wire("node2", "ConsumerProducer", "mult", <<"sq2", "saw2">>,
                          <<"mul">>, <<"term">>, DelayFast, 0)
       [] n = "Pr" -> Wire("node2", "Printer", "print_bus",
                           <<"sq2", "saw2", "mul", "term">>, <<"prout">>,
                           <<"term">>, DelayPrinter, 0)
       [] n = "T" -> Wire("node2", "Timer", "timer", <<"tin">>, <<"term">>,
                          <<"term">>, DelayFast, TimerDuration)]

DemoBuses ==
  [b \in {"ain", "a2in", "tin", "pterm", "mul", "term", "prout"} |->
     CASE b = "pterm" -> Bool(FALSE)
       [] b = "mul" -> Obj
       [] OTHER -> Num(0)]

\* node1: `await rrn.start_node(5000)`. rossros_networking defines no
\* start_node (networking.py does), so the call may raise before any node
\* is built; Gather("node1") is the run in which it returned a store.
StartNodeRaises(p) ==
  /\ p = "node1"
  /\ gatherSt[p] = "idle"
  /\ gatherSt' = [gatherSt EXCEPT ![p] = "failed"]
  /\ UNCHANGED <<nodes, bus, dht, srvState, pc, idx, acc, pend, wake, now,
                 lastSet, setAt, cnt, first, after, ev, netVars>>

\* time.time() moves on.
Tick ==
  /\ now < MaxTime
  /\ now' = now + 1
  /\ wake' = [n \in NodeIds |-> IF wake[n] > 0 THEN wake[n] - 1 ELSE 0]
  /\ UNCHANGED <<nodes, bus, dht, srvState, pc, idx, acc, pend,
                 gatherSt, lastSet, setAt, cnt, first, after, ev, netVars>>

InitDemo ==
  /\ InitNoNet
  /\ InitNodes(DemoNodes, DemoBuses, {"node1", "node2"}, EvOff)
  /\ dht = [b \in {"sq1", "saw1"} |-> None]
  /\ srvState = <<>>

NextDemo ==
  \/ \E p \in Procs : StartNodeRaises(p)
  \/ \E p \in Procs : Gather(p)
  \/ \E n \in NodeIds : NodeCycle(n, DemoOpt)
  \/ \E n \in NodeIds : NetDone(n, DemoOpt)
  \/ \E p \in Procs : GatherReturn(p)
  \/ \E p \in Procs : GatherRaise(p)
  \/ \E p \in Procs : CancelRest(p)
  \/ Tick

SpecDemo == InitDemo /\ [][NextDemo]_vars

\* --------------------------------------- a Timer run over local buses
\* The wiring of node2 with local buses only: T, a Timer of duration
\* TimerDuration that writes the termination bus "term" it watches; P, a
\* Producer that deals its k-th sample (k, -k) to the buses x and y; R, a
\* Consumer of x and y. P and R watch "term" too.
LocalNodes ==
  [n \in {"T", "P", "R"} |->
     CASE n = "T" -> Wire("main", "Timer", "timer", <<"tin">>, <<"term">>,
                          <<"term">>, DelayFast, TimerDuration)
       [] n = "P" -> Wire("main", "Producer", "stamp", <<"pin">>, <<"x", "y">>,
                          <<"term">>, DelayFast, 0)
       [] n = "R" -> Wire("main", "Consumer", "sink", <<"x", "y">>, <<"rout">>,
                          <<"term">>, DelayFast, 0)]

LocalBuses ==
  [b \in {"tin", "pin", "x", "y", "rout", "term"} |-> Num(0)]

InitLocal ==
  /\ InitNoNet
  /\ InitNodes(LocalNodes, LocalBuses, {"main"}, NoEv)
  /\ dht = <<>>
  /\ srvState = <<>>

NextLocal ==
  \/ Gather("main")
  \/ \E n \in NodeIds : NodeCycle(n, LocalOpt)
  \/ GatherReturn("main")
  \/ Tick

SpecLocal == InitLocal /\ [][NextLocal]_vars

\* The same run with a clock that keeps advancing and an event loop that
\* runs every task that is ready. Time goes on after the last tick the
\* model counts: sleeps still run out, and time.time() is read as MaxTime.
TickBeyond ==
  /\ now = MaxTime
  /\ \E n \in NodeIds : wake[n] > 0
  /\ wake' = [n \in NodeIds |-> IF wake[n] > 0 THEN wake[n] - 1 ELSE 0]
  /\ UNCHANGED <<nodes, bus, dht, srvState, pc, idx, acc, pend, now,
                 gatherSt, lastSet, setAt, cnt, first, after, ev, netVars>>

NextLocalLive ==
  \/ Gather("main")
  \/ \E n \in NodeIds : NodeCycle(n, LiveOpt)
  \/ GatherReturn("main")
  \/ Tick
  \/ TickBeyond

SpecLocalLive ==
  /\ InitLocal /\ [][NextLocalLive]_vars
  /\ WF_vars(Tick) /\ WF_vars(TickBeyond)
  /\ WF_vars(Gather("main")) /\ WF_vars(GatherReturn("main"))
  /\ \A n \in DOMAIN LocalNodes : WF_vars(NodeCycle(n, LiveOpt))

\* ------------------------------------------- a Timer that runs forever
\* T0, a Timer of duration 0 that writes the bus "term0" it watches, and W,
\* a Consumer that watches "term0". Neither leaves its loop, so the await
\* of gather never returns.
ForeverNodes ==
  [n \in {"T0", "W"} |->
     CASE n = "T0" -> Wire("main", "Timer", "timer", <<"t0in">>, <<"term0">>,
                           <<"term0">>, DelayFast, 0)
       [] n = "W" -> Wire("main", "Consumer", "sink", <<"win">>, <<"wout">>,
                          <<"term0">>, DelayFast, 0)]

ForeverBuses(t0) ==
  [b \in {"t0in", "win", "wout", "term0"} |-> IF b = "term0" THEN t0 ELSE Num(0)]

InitForever ==
  /\ InitNoNet
  /\ \E t0 \in {Bool(FALSE), Num(0), None} :
       InitNodes(ForeverNodes, ForeverBuses(t0), {"main"}, NoEv)
  /\ dht = <<>>
  /\ srvState = <<>>

NextForever ==
  \/ Gather("main")
  \/ \E n \in NodeIds : NodeCycle(n, LocalOpt)
  \/ Tick

SpecForever == InitForever /\ [][NextForever]_vars

\* ------------------------------------ the default termination buses
\* `termination_buses=Bus(False, "Default ... termination bus")` in the
\* signature of __init__: the default is one Bus per class, built when the
\* def statement runs, and every construction that omits the argument gets
\* that same Bus.
DefaultTerminationBus(cls) ==
  CASE cls = "Producer" -> "pterm"
    [] cls = "Consumer" -> "cterm"
    [] cls = "Printer" -> "prterm"
    [] cls = "Timer" -> "tterm"

\* The termination buses of a node of class cls built with the argument
\* `given` ("default" when it is omitted).
TerminationBusesIgnoringArgument(cls, given) == <<DefaultTerminationBus(cls)>>
TerminationBuses(cls, given) ==
  IF given = "default" THEN <<DefaultTerminationBus(cls)>> ELSE <<given>>

\* D1 and D2, Producers built without termination bus; C, a Consumer built
\* without one; E, a Producer built with a termination bus of its own; K, a
\* Producer with a termination bus of its own that writes into the default
\* producer termination bus.
DefaultNodes ==
  [n \in {"D1", "D2", "C", "E", "K"} |->
     CASE n = "D1" -> Wire("main", "Producer", "const", <<"d1in">>, <<"d1out">>,
                           TerminationBuses("Producer", "default"), 0, 0)
       [] n = "D2" -> Wire("main", "Producer", "const", <<"d2in">>, <<"d2out">>,
                           TerminationBuses("Producer", "default"), 0, 0)
       [] n = "C" -> Wire("main", "Consumer", "sink", <<"d1out">>, <<"cout">>,
                          TerminationBuses("Consumer", "default"), 0, 0)
       [] n = "E" -> Wire("main", "Producer", "const", <<"ein">>, <<"eout">>,
                          TerminationBuses("Producer", "eterm"), 0, 0)
       [] n = "K" -> Wire("main", "Producer", "anyterm", <<"kin">>, <<"pterm">>,
                          TerminationBuses("Producer", "kterm"), 0, 0)]

DefaultBuses ==
  [b \in {"d1in", "d2in", "ein", "kin", "d1out", "d2out", "cout", "eout",
          "pterm", "cterm", "eterm", "kterm"} |->
     IF b \in {"pterm", "cterm", "eterm", "kterm"} THEN Bool(FALSE) ELSE Num(0)]

InitDefault ==
  /\ InitNoNet
  /\ InitNodes(DefaultNodes, DefaultBuses, {"main"}, NoEv)
  /\ dht = <<>>
  /\ srvState = <<>>

\* C, E and K never leave their loops, so the await of gather never returns.
NextDefault ==
  \/ Gather("main")
  \/ \E n \in NodeIds : NodeCycle(n, BenchOpt)

SpecDefault == InitDefault /\ [][NextDefault]_vars

\* ================================================================ claims

\* C1 (as claimed): a Client.get(k) that starts after a Client.set(k, v) was
\* answered, with no other set on k handled in between, returns v.
\* calls[i].expect is that v, noted when the Server handles the get.
C1_SetThenGetReturnsValue ==
  \A i \in DOMAIN calls :
    (calls[i].op = "get" /\ calls[i].pc = "done" /\ calls[i].expect # Absent)
      => calls[i].result = calls[i].expect

C3_GatherWaitsForAll ==
  \A p \in Procs :
    /\ gatherSt[p] \in {"waiting", "done"} => \A n \in NodesOf(p) : pc[n] # "new"
    /\ gatherSt[p] = "done" => \A n \in NodesOf(p) : pc[n] = "done"

\* gather returned after nodes ran cycles.
C3_Witness ==
  /\ gatherSt = [p \in {"main"} |-> "done"]
  /\ \A n \in NodeIds : pc[n] = "done"
  /\ \E n \in NodeIds : cnt[n].cyc > 0

\* C4: the first run of a node whose one termination bus holds a triggering
\* value ends its loop, and reads no input bus, calls no transform and leaves
\* every local bus as it was.
C4_PresetTerminationExitsAtOnce ==
  [][\A n \in NodeIds :
       ( /\ pc[n] = "ready" /\ pc'[n] \notin {"ready", "cancelled"}
         /\ cnt[n].cyc = 0
         /\ Len(nodes[n].termB) = 1
         /\ IsTriggering(bus[nodes[n].termB[1]]) )
       => (pc'[n] = "done" /\ bus' = bus /\ cnt'[n] = ZeroCnt)]_vars

\* Such a node has left its loop while another node has written outputs.
C4_Witness ==
  \E n \in NodeIds :
    /\ first[n] = "yes" /\ pc[n] = "done" /\ cnt[n] = ZeroCnt
    /\ \E o \in NodeIds : cnt[o].out > 0

C6_ReadAfterWrite ==
  \A b \in DOMAIN bus : BusGet(bus, b) = lastSet[b]

\* F has just read bus a after S wrote it.
C6_Witness ==
  /\ ev.node = "F" /\ ev.what = "cycle" /\ ev.tres = "None"
  /\ lastSet["a"] # Num(0)
  /\ BusGet(bus, "a") = lastSet["a"]

\* C7: after dealValuesToBuses with N > 1 output buses and a tuple of N
\* elements, bus i holds element i and none holds the tuple.
C7_ElementWise ==
  (ev.dealt /\ ev.nb > 1 /\ ev.ret.k = "tuple" /\ Len(ev.ret.t) = ev.nb) =>
    \A i \in 1..ev.nb :
      LET b == nodes[ev.node].outB[i]
      IN bus[b] = ev.ret.t[i] /\ bus[b] # ev.ret

C7_Witness ==
  /\ ev.dealt /\ ev.node = "F" /\ ev.ret = Tup(<<Num(6), Num(8)>>)
  /\ bus["b"] = Num(6) /\ bus["c"] = Num(8)

\* C8: a cycle of a node with one output bus whose transform returned ends
\* with dealValuesToBuses done and that bus holding the whole result.
C8_SingleBusWhole ==
  (ev.what = "cycle" /\ ev.tres = "None" /\ ev.nb = 1 /\ ev.ret # Raise) =>
    ev.dealt /\ bus[nodes[ev.node].outB[1]] = ev.ret

C8_Witness ==
  /\ ev.dealt /\ ev.node = "S" /\ ev.ret = Tup(<<Num(6), Num(8)>>)
  /\ bus["a"] = Tup(<<Num(6), Num(8)>>)

\* C9: after dealValuesToBuses with N > 1 output buses and a result that is
\* no tuple, every output bus holds that result.
C9_Broadcast ==
  (ev.what = "cycle" /\ ev.tres = "None" /\ ev.nb > 1
     /\ ev.ret.k \notin {"tuple", "raise"}) =>
    ev.dealt /\ \A i \in 1..ev.nb : bus[nodes[ev.node].outB[i]] = ev.ret

C9_Witness ==
  /\ ev.dealt /\ ev.node = "F" /\ ev.ret = Num(6)
  /\ bus["b"] = Num(6) /\ bus["c"] = Num(6)

\* C10: a get of a key no set request was handled for is answered
\* {status: OK, value: null}, Client.get returns None, the handler does not
\* fail, and no get request changes Server.state.
C10_MissingKey ==
  /\ \A i \in DOMAIN calls :
       (calls[i].op = "get" /\ calls[i].fresh) =>
         /\ conns[i].h # "crashed"
         /\ \A j \in 1..Len(conns[i].s2c) :
              conns[i].s2c[j] = Resp("OK", TRUE, None, "")
         /\ calls[i].pc \in {"read", "done"}
              => calls[i].resp = Resp("OK", TRUE, None, "")
         /\ calls[i].pc = "done" => calls[i].result = None
  /\ ev.what = "get" => srvState = srvPrev

\* A get of a key never set has returned None, after a set of another key.
C10_Witness ==
  \E i \in DOMAIN calls :
    /\ calls[i].op = "get" /\ calls[i].fresh /\ calls[i].pc = "done"
    /\ calls[i].result = None
    /\ \E k \in Keys : hist[k].n > 0

\* C11: a frame whose action is neither set nor get is answered
\* {status: ERROR, message: Unknown command}; handling it leaves Server.state
\* as it was and the handler in its loop, and a well-formed request read
\* next on the same connection is answered OK.
C11_UnknownAction ==
  /\ \A i \in DOMAIN conns :
       \A j \in 1..Len(conns[i].log) :
         conns[i].log[j].req \in UnknownFrames =>
           /\ conns[i].log[j].resp = Resp("ERROR", FALSE, None, "Unknown command")
           /\ (j < Len(conns[i].log) /\ conns[i].log[j + 1].req \in ValidFrames)
                => conns[i].log[j + 1].resp.status = "OK"
           /\ (j = Len(conns[i].log)) => conns[i].h \in {"run", "closed"}
  /\ ev.what = "bogus" => (srvState = srvPrev /\ conns[ev.nb].h = "run")

\* A peer has read the answer to its get, sent after a frame with an unknown
\* action on the same connection.
C11_Witness ==
  \E i \in DOMAIN conns :
    /\ Len(conns[i].log) = 2
    /\ conns[i].log[1].req = Req("bogus", "k", Absent)
    /\ conns[i].log[1].resp.status = "ERROR"
    /\ conns[i].log[2].req = Req("get", "k", Absent)
    /\ calls[i].resp = Resp("OK", TRUE, None, "")

\* C12 (as claimed): every malformed frame the handler reads (no JSON, or
\* an object lacking action or key) is answered with status ERROR, and the
\* handler goes on.
C12_MalformedAnsweredWithError ==
  \A i \in DOMAIN conns :
    \A j \in 1..Len(conns[i].log) :
      conns[i].log[j].req \in MalformedFrames =>
        conns[i].log[j].resp.status = "ERROR" /\ conns[i].h # "crashed"

\* C20 (as claimed): on every connection the handler has written one
\* response for each frame it has read, in the order it read them, and has
\* not read a frame before answering the one before.
C20_OneResponsePerRequest ==
  \A i \in DOMAIN conns :
    \A j \in 1..Len(conns[i].log) : conns[i].log[j].resp # NoResp
C18_LengthMismatchFails ==
  (ev.what = "cycle" /\ ev.tres = "None" /\ ev.nb > 1
     /\ ev.ret.k = "tuple" /\ Len(ev.ret.t) # ev.nb) =>
    (pc[ev.node] = "failed" /\ ~ev.dealt)
\* C14: every call of Timer.timer of a Timer of duration D > 0, built at
\* time 0, returns a number that is < 0 when made before time D and >= 0
\* when made at or after D, and that is not below the value the call before
\* returned (which the Timer wrote to its output bus).
C14_TimerSign ==
  (ev.what = "cycle" /\ ev.node = "T" /\ ev.tres = "None") =>
    /\ nodes["T"].dur > 0
    /\ ev.ret.k = "num"
    /\ ev.at < nodes["T"].dur => ev.ret.n < 0
    /\ ev.at >= nodes["T"].dur => ev.ret.n >= 0
    /\ cnt["T"].call >= 2 => ev.was.n <= ev.ret.n

\* The Timer has returned a negative value and then, at time D, 0.
C14_Witness ==
  /\ ev.node = "T" /\ ev.at = TimerDuration /\ ev.ret = Num(0)
  /\ cnt["T"].call >= 2 /\ ev.was.n < 0

\* C15: every call of Timer.timer of a Timer of duration 0 returns False;
\* the bus only that Timer writes, which started with a value that does not
\* trigger, never holds a triggering value, and neither the Timer nor the
\* node watching that bus leaves its loop.
C15_ZeroDurationNeverTriggers ==
  /\ (ev.what = "cycle" /\ ev.node = "T0" /\ ev.tres = "None")
       => ev.ret = Bool(FALSE)
  /\ ~IsTriggering(bus["term0"])
  /\ setAt["term0"] >= 0 => bus["term0"] = Bool(FALSE)
  /\ \A n \in NodeIds : pc[n] # "done"

\* Time has passed, the Timer has written the bus more than once and the
\* watcher has gone through its check after that.
C15_Witness ==
  /\ now >= 2 /\ setAt["term0"] >= 2 /\ cnt["T0"].call >= 2
  /\ ev.node = "W" /\ ev.tvals = <<Bool(FALSE)>> /\ ev.tres = "None"
  /\ cnt["W"].cyc >= 2

C16_InitialValueRace ==
  \A i \in DOMAIN calls :
    (calls[i].op = "get" /\ calls[i].pc = "done") =>
      /\ calls[i].result \in {None, calls[1].value}
      /\ calls[i].result = None => ~calls[i].acked
\* C21: every Client.set / Client.get has a connection of its own, on which
\* it writes one request and reads one response before it closes; the
\* handler closes its side only after the client has closed; and once a call
\* has returned, its handler reads the end of the stream and closes, with
\* nothing left in flight.
C21_CallLifecycle(i) ==
  LET c == calls[i]
      k == conns[i]
      requests == Len(k.c2s) + Len(k.log)
      responses == Len(SelectSeq(k.log, LAMBDA e : e.resp # NoResp))
  IN /\ c.pc = "idle" => k = NoConn
     /\ c.pc = "open" => requests = 0
     /\ c.pc \in {"sent", "read", "done"} => requests = 1
     /\ responses = requests - Len(k.c2s)
     /\ c.pc = "sent" => Len(k.s2c) = responses
     /\ c.pc \in {"read", "done"} => (responses = 1 /\ k.s2c = <<>>)
     /\ k.eof <=> c.pc = "done"
     /\ k.h = "closed" => c.pc = "done"
     /\ k.h # "crashed"

\* C21, as a whole: the lifecycle holds of every call at all times, and a
\* call that has returned leads to its connection closed on both sides.
C21_ConnectionLifecycle ==
  /\ [](\A i \in CallIds : C21_CallLifecycle(i))
  /\ \A i \in CallIds :
       (calls[i].pc = "done") ~>
         (conns[i].h = "closed" /\ conns[i].c2s = <<>> /\ conns[i].s2c = <<>>)

\* Every call has returned and every handler has closed its side.
C21_Witness ==
  \A i \in LifeIds :
    /\ calls[i].pc = "done" /\ conns[i].h = "closed" /\ conns[i].eof
    /\ Len(conns[i].log) = 1
\* C22: the Producers built without termination bus watch one and the same
\* bus, which is not the one a Consumer built without it watches; each of
\* them leaves its loop at the first check it makes while that bus holds a
\* triggering value; the nodes built with a termination bus of their own,
\* and the Consumer, never leave theirs on that account.
C22_SharedDefaultBus ==
  /\ nodes["D1"].termB = nodes["D2"].termB
  /\ nodes["C"].termB # nodes["D1"].termB
  /\ \A n \in {"E", "K"} : nodes[n].termB \notin {nodes["D1"].termB, nodes["C"].termB}
  /\ (ev.what = "cycle" /\ ev.node \in {"D1", "D2"}) =>
       /\ ev.tvals = <<bus[nodes["D1"].termB[1]]>>
       /\ IsTriggering(bus[nodes["D1"].termB[1]]) <=> pc[ev.node] = "done"
  /\ \A n \in {"C", "E", "K"} : pc[n] # "done"

\* Both Producers built without termination bus have left their loops, and
\* E has just gone through its check and on with its loop.
C22_Witness ==
  /\ pc["D1"] = "done" /\ pc["D2"] = "done"
  /\ cnt["D1"].cyc >= 1
  /\ IsTriggering(bus["pterm"])
  /\ ev.node = "E" /\ ev.tres = "None" /\ pc["E"] = "sleep"
C24_EventuallyAllExit ==
  /\ <>(gatherSt["main"] = "done" /\ \A n \in DOMAIN LocalNodes : pc[n] = "done")
  /\ [][IsTriggering(bus["term"]) => IsTriggering(bus'["term"])]_vars

\* gather has returned on the value the Timer wrote after its duration,
\* every node having completed a cycle before.
C24_Witness ==
  /\ gatherSt["main"] = "done"
  /\ \A n \in DOMAIN LocalNodes : pc[n] = "done"
  /\ bus["term"].k = "num" /\ bus["term"].n > 0
  /\ bus["x"] = Num(1) /\ bus["rout"] = None
====
